---- MODULE Spec2Model ----
(***************************************************************************)
(* A model of aionic: the NICApi client (src/aionic/api.py) and the DNS    *)
(* record models (src/aionic/models.py).                                   *)
(*                                                                         *)
(*   Spec          the token lifecycle: get_token, the session's automatic *)
(*                 refresh wired in by _setup, _token_updater, and         *)
(*                 concurrent / cancelled calls of _request                *)
(*   SpecCodec     the record codec: DNSRecord and its nine subclasses,    *)
(*                 __init__, to_xml, from_xml, _get_kwargs, create         *)
(*   SpecEnvelope  the response envelope: _parse_answer, _request_data     *)
(*                 and records on the bodies a server sends                *)
(*   SpecApi       the public operations: services, zones, zonefile,       *)
(*                 records, add_record, delete_record, commit, rollback    *)
(***************************************************************************)
EXTENDS Integers, Sequences, FiniteSets, TLC

\* ------------------------------------------------------------------ bounds
MaxTokens == 3
MaxCalls == 3

Tasks == {1, 2}

\* NICApi.__init__'s timeout (its default); a call sent without a timeout
\* argument has timeout 0.
_timeout == 600

\* ---------------------------------------------------------------- state
VARIABLES
    _token,              \* NICApi._token: the stored token payload, 0 is None
    _token_updater_clb,  \* whether the client was given a token_updater callback
    session_token,       \* OAuth2Session.token, 0 is None
    expired,             \* the session's access token is past its expiry
    pc,                  \* each task's position in its call
    raised,              \* the exception each task's call ended with
    upstream,            \* the authorization server's failure each task met
    clb_log,             \* the payloads _token_updater_clb was invoked with
    session_log,         \* the payloads the session stored (token changes)
    issued,              \* tokens minted by the authorization server so far
    refresh_trips,       \* refresh round trips started since the token expired
    refresh_clbs,        \* callback invocations by refreshes since the expiry
    calls,               \* public calls started so far
    op,                  \* the public operation each task is running
    api_trips,           \* API requests each task's current call has sent
    token_trips,         \* token round trips each task's current call has started
    outbound,            \* the outbound calls made so far, each with its timeout
    c_pc,                \* record codec: where the record under work is
    c_in,                \* record codec: the constructor call or wire element chosen
    c_rec,               \* record codec: the record constructed (or the error)
    c_xml,               \* record codec: the rr element in hand
    c_out,               \* record codec: what decoding returned (or raised)
    _default_zone,       \* NICApi._default_zone
    e_pc,                \* envelope: where the call under work is
    e_call,              \* envelope: the operation called and its arguments
    e_body,              \* envelope: the body of the response _request returned
    e_result,            \* envelope: what the call returned (or raised)
    a_pc,                \* operations: where the operation under work is
    a_call,              \* operations: the operation called and its arguments
    a_requests,          \* operations: the requests sent, in order
    a_response,          \* operations: the response _request got
    a_result             \* operations: what the operation returned (or raised)

token_vars == <<_token, _token_updater_clb, session_token, expired, pc, raised,
                upstream, clb_log, session_log, issued, refresh_trips,
                refresh_clbs, calls, op, api_trips, token_trips, outbound>>

codec_vars == <<c_pc, c_in, c_rec, c_xml, c_out>>

envelope_vars == <<_default_zone, e_pc, e_call, e_body, e_result>>

api_vars == <<a_pc, a_call, a_requests, a_response, a_result>>

vars == <<token_vars, codec_vars, envelope_vars, api_vars>>

\* The errors oauthlib's token endpoint parsing raises, and a transport error.
UpstreamErrors == {"InvalidGrantError", "InvalidClientError", "ClientError"}

\* NICApi.__init__ with token=None or a token kept from an earlier run;
\* _setup hands the same token to the session.
TokenInit ==
    /\ _token \in {0, 1}
    /\ session_token = _token
    /\ issued = _token
    /\ _token_updater_clb \in BOOLEAN
    /\ expired = FALSE
    /\ pc = [t \in Tasks |-> "idle"]
    /\ raised = [t \in Tasks |-> "none"]
    /\ upstream = [t \in Tasks |-> "none"]
    /\ clb_log = <<>>
    /\ session_log = <<>>
    /\ refresh_trips = 0
    /\ refresh_clbs = 0
    /\ calls = 0
    /\ op = [t \in Tasks |-> "none"]
    /\ api_trips = [t \in Tasks |-> 0]
    /\ token_trips = [t \in Tasks |-> 0]
    /\ outbound = {}

\* A _token_updater that notifies the callback of the first change only.
_token_updater_first_only(tok) ==
    /\ _token' = tok
    /\ clb_log' = IF _token_updater_clb /\ clb_log = <<>>
                  THEN Append(clb_log, tok) ELSE clb_log

\* NICApi._token_updater: store the token, then notify the callback if any.
_token_updater(tok) ==
    /\ _token' = tok
    /\ clb_log' = IF _token_updater_clb THEN Append(clb_log, tok) ELSE clb_log

\* A get_token without the except clause: the upstream error reaches the caller.
get_token_except_leak(e) == e

\* get_token's except clause: InvalidGrantError becomes DnsApiException,
\* every other exception propagates as it is.
get_token_except(e) ==
    IF e = "InvalidGrantError" THEN "DnsApiException" ELSE e

\* get_token up to its await of session.fetch_token.
get_token(t) ==
    /\ pc[t] = "idle"
    /\ calls < MaxCalls
    /\ calls' = calls + 1
    /\ pc' = [pc EXCEPT ![t] = "fetching"]
    /\ op' = [op EXCEPT ![t] = "get_token"]
    /\ api_trips' = [api_trips EXCEPT ![t] = 0]
    /\ token_trips' = [token_trips EXCEPT ![t] = 1]
    /\ outbound' = outbound \cup {[call |-> "fetch_token", timeout |-> 0]}
    /\ UNCHANGED <<codec_vars, envelope_vars, api_vars, _token, _token_updater_clb, session_token, expired, raised,
                   upstream, clb_log, session_log, issued, refresh_trips,
                   refresh_clbs>>

\* fetch_token returned a token: the session stores it and get_token calls
\* _token_updater(token).
get_token_ok(t) ==
    /\ pc[t] = "fetching"
    /\ issued < MaxTokens
    /\ issued' = issued + 1
    /\ session_token' = issued + 1
    /\ session_log' = Append(session_log, issued + 1)
    /\ expired' = FALSE
    /\ _token_updater(issued + 1)
    /\ pc' = [pc EXCEPT ![t] = "done"]
    /\ UNCHANGED <<codec_vars, envelope_vars, api_vars, op, _token_updater_clb, raised, upstream, refresh_trips,
                   refresh_clbs, calls,
                   api_trips, token_trips, outbound>>

\* fetch_token raised e: nothing is stored and the callback is not called.
get_token_fail(t) ==
    /\ pc[t] = "fetching"
    /\ \E e \in UpstreamErrors :
         /\ upstream' = [upstream EXCEPT ![t] = e]
         /\ raised' = [raised EXCEPT ![t] = get_token_except(e)]
    /\ pc' = [pc EXCEPT ![t] = "failed"]
    /\ UNCHANGED <<codec_vars, envelope_vars, api_vars, op, _token, _token_updater_clb, session_token, expired, clb_log,
                   session_log, issued, refresh_trips, refresh_clbs, calls,
                   api_trips, token_trips, outbound>>

\* NICApi._request: await self._session.request(...). The session attaches
\* the token; an expired token makes it start a refresh round trip first.
\* Nothing in _request or _setup serialises the tasks.
_request(t) ==
    /\ pc[t] = "idle"
    /\ calls < MaxCalls
    /\ calls' = calls + 1
    /\ IF session_token # 0 /\ expired
       THEN /\ pc' = [pc EXCEPT ![t] = "refreshing"]
            /\ refresh_trips' = refresh_trips + 1
            /\ api_trips' = [api_trips EXCEPT ![t] = 0]
            /\ token_trips' = [token_trips EXCEPT ![t] = 1]
            /\ \E library \in {0, _timeout} :
                 outbound' = outbound \cup {[call |-> "refresh", timeout |-> library]}
       ELSE /\ pc' = [pc EXCEPT ![t] = "requesting"]
            /\ UNCHANGED refresh_trips
            /\ api_trips' = [api_trips EXCEPT ![t] = 1]
            /\ token_trips' = [token_trips EXCEPT ![t] = 0]
            /\ outbound' = outbound \cup {[call |-> "request", timeout |-> _timeout]}
    /\ op' = [op EXCEPT ![t] = "request"]
    /\ UNCHANGED <<codec_vars, envelope_vars, api_vars, _token, _token_updater_clb, session_token, expired, raised,
                   upstream, clb_log, session_log, issued, refresh_clbs>>

\* The refresh returned a token: the session stores it and calls the
\* token_updater hook that _setup registered, then sends the request.
refresh_ok(t) ==
    /\ pc[t] = "refreshing"
    /\ issued < MaxTokens
    /\ issued' = issued + 1
    /\ session_token' = issued + 1
    /\ session_log' = Append(session_log, issued + 1)
    /\ expired' = FALSE
    /\ _token_updater(issued + 1)
    /\ refresh_clbs' = IF _token_updater_clb THEN refresh_clbs + 1
                       ELSE refresh_clbs
    /\ pc' = [pc EXCEPT ![t] = "requesting"]
    /\ api_trips' = [api_trips EXCEPT ![t] = api_trips[t] + 1]
    /\ outbound' = outbound \cup {[call |-> "request", timeout |-> _timeout]}
    /\ UNCHANGED <<codec_vars, envelope_vars, api_vars, op, _token_updater_clb, raised, upstream, refresh_trips, calls,
                   token_trips>>

\* The refresh failed: _request catches nothing, the error propagates.
refresh_fail(t) ==
    /\ pc[t] = "refreshing"
    /\ \E e \in UpstreamErrors :
         /\ upstream' = [upstream EXCEPT ![t] = e]
         /\ raised' = [raised EXCEPT ![t] = e]
    /\ pc' = [pc EXCEPT ![t] = "failed"]
    /\ UNCHANGED <<codec_vars, envelope_vars, api_vars, op, _token, _token_updater_clb, session_token, expired, clb_log,
                   session_log, issued, refresh_trips, refresh_clbs, calls,
                   api_trips, token_trips, outbound>>

\* A _request that sends the request again when the transport fails.
_request_retry(t) ==
    /\ api_trips[t] <= 1
    /\ api_trips' = [api_trips EXCEPT ![t] = api_trips[t] + 1]
    /\ UNCHANGED <<pc, raised>>

\* What a transport failure does to the call: _request has no handler and
\* no loop around session.request, the exception ends the call.
_request_raise(t) ==
    /\ pc' = [pc EXCEPT ![t] = "failed"]
    /\ raised' = [raised EXCEPT ![t] = "ClientError"]
    /\ UNCHANGED api_trips

\* The API request failed in the transport (connection error, timeout).
_request_fail(t) ==
    /\ pc[t] = "requesting"
    /\ _request_raise(t)
    /\ UNCHANGED <<codec_vars, envelope_vars, api_vars, op, _token, _token_updater_clb,
                   session_token, expired, upstream, clb_log, session_log,
                   issued, refresh_trips, refresh_clbs, calls, token_trips,
                   outbound>>

\* The API response arrived: _request returns it.
_request_return(t) ==
    /\ pc[t] = "requesting"
    /\ pc' = [pc EXCEPT ![t] = "done"]
    /\ UNCHANGED <<codec_vars, envelope_vars, api_vars, op, _token, _token_updater_clb, session_token, expired, raised,
                   upstream, clb_log, session_log, issued, refresh_trips,
                   refresh_clbs, calls,
                   api_trips, token_trips, outbound>>

\* An unwinding that runs the updater on the way out (a finally clause).
cancel_unwind_notify ==
    /\ _token' = 0
    /\ clb_log' = Append(clb_log, 0)
    /\ UNCHANGED <<session_token, session_log>>

\* What a cancellation does to the token state: CancelledError is thrown at
\* the await and unwinds the call; neither _request nor get_token has a
\* handler or a finally clause, so nothing is stored and nothing notified.
cancel_unwind ==
    UNCHANGED <<_token, clb_log, session_token, session_log>>

\* The caller cancels the task while it is suspended in an await.
cancel(t) ==
    /\ pc[t] \in {"fetching", "refreshing", "requesting"}
    /\ pc' = [pc EXCEPT ![t] = "cancelled"]
    /\ raised' = [raised EXCEPT ![t] = "CancelledError"]
    /\ cancel_unwind
    /\ UNCHANGED <<codec_vars, envelope_vars, api_vars, op, _token_updater_clb, expired, upstream, issued,
                   refresh_trips, refresh_clbs, calls,
                   api_trips, token_trips, outbound>>

\* The task is free for its next call.
finish(t) ==
    /\ pc[t] \in {"done", "failed", "cancelled"}
    /\ pc' = [pc EXCEPT ![t] = "idle"]
    /\ raised' = [raised EXCEPT ![t] = "none"]
    /\ upstream' = [upstream EXCEPT ![t] = "none"]
    /\ op' = [op EXCEPT ![t] = "none"]
    /\ UNCHANGED <<codec_vars, envelope_vars, api_vars, _token, _token_updater_clb, session_token, expired, clb_log,
                   session_log, issued, refresh_trips, refresh_clbs, calls,
                   api_trips, token_trips, outbound>>

\* Time passes the token's expires_at.
expire ==
    /\ session_token # 0
    /\ ~expired
    /\ expired' = TRUE
    /\ refresh_trips' = 0
    /\ refresh_clbs' = 0
    /\ UNCHANGED <<codec_vars, envelope_vars, api_vars, op, _token, _token_updater_clb, session_token, pc, raised,
                   upstream, clb_log, session_log, issued, calls,
                   api_trips, token_trips, outbound>>

\* ------------------------------------------------------------ record codec
\* Python values: None, an int, a str. A raised exception is [err |-> name].
PyNone == [py |-> "None"]
PyInt(n) == [py |-> "int", v |-> n]
PyStr(s) == [py |-> "str", v |-> s]
Err(e) == [err |-> e, msg |-> ""]
Raise(e, msg) == [err |-> e, msg |-> msg]
IsErr(x) == "err" \in DOMAIN x

MaxInt == 2

Digits == <<"0", "1", "2", "3", "4", "5", "6", "7", "8", "9">>

\* str(x)
str(x) ==
    CASE x.py = "int" -> PyStr(Digits[x.v + 1])
      [] x.py = "str" -> x
      [] OTHER -> PyStr("None")

\* int(x): ValueError on text that is no integer literal, TypeError on None
int(x) ==
    CASE x.py = "int" -> x
      [] x.py = "str" ->
            IF \E n \in 1..Len(Digits) : Digits[n] = x.v
            THEN PyInt((CHOOSE n \in 1..Len(Digits) : Digits[n] = x.v) - 1)
            ELSE Err("ValueError")
      [] OTHER -> Err("TypeError")

\* An xml.etree Element: tag, attributes (PyNone: not set), text, children.
NoAttrib == [id |-> PyNone, code |-> PyNone, name |-> PyNone]
Element(tag, attrib, text, kids) ==
    [tag |-> tag, attrib |-> attrib, text |-> text, kids |-> kids]
\* ET.SubElement with a text / with children
Leaf(tag, text) == Element(tag, NoAttrib, text, <<>>)
Node(tag, kids) == Element(tag, NoAttrib, PyNone, kids)
IsElement(x) == "tag" \in DOMAIN x

\* Element.findall(path): the elements path leads to, in document order.
RECURSIVE findall(_, _)
RECURSIVE findall_in(_, _)
findall(obj, path) ==
    IF path = <<>> THEN <<obj>> ELSE findall_in(obj.kids, path)
findall_in(kids, path) ==
    IF kids = <<>> THEN <<>>
    ELSE (IF Head(kids).tag = Head(path)
          THEN findall(Head(kids), Tail(path)) ELSE <<>>)
         \o findall_in(Tail(kids), path)

\* Element.find(path): the first such element, or None.
find(obj, path) ==
    LET all == findall(obj, path) IN IF all = <<>> THEN PyNone ELSE all[1]

\* keyword arguments: a function from the keywords given to their values
Get(kwargs, k, default) == IF k \in DOMAIN kwargs THEN kwargs[k] ELSE default
Without(kwargs, ks) == [k \in DOMAIN kwargs \ ks |-> kwargs[k]]

\* The registered subclasses of DNSRecord, in definition order
\* (DNSRecord.__subclasses__()); each one's type_name is its tag.
Subclasses == <<"SOA", "NS", "A", "AAAA", "CNAME", "MX", "TXT", "SRV", "PTR">>
SubclassSet == {Subclasses[i] : i \in 1..Len(Subclasses)}

\* cls.type_name: None for the base class
type_name(cls) == IF cls = "DNSRecord" THEN PyNone ELSE PyStr(cls)

\* The positional parameters of each subclass's __init__.
Params(cls) ==
    CASE cls = "SOA" -> {"serial", "refresh", "retry", "expire", "minimum",
                         "mname", "rname"}
      [] cls = "NS" -> {"ns_name"}
      [] cls = "A" -> {"a"}
      [] cls = "AAAA" -> {"aaaa"}
      [] cls = "CNAME" -> {"cname"}
      [] cls = "MX" -> {"preference", "exchange"}
      [] cls = "TXT" -> {"txt"}
      [] cls = "SRV" -> {"priority", "weight", "port", "target"}
      [] cls = "PTR" -> {"ptr_name"}
      [] OTHER -> {}

\* The parameters each __init__ passes through int().
IntParams(cls) ==
    CASE cls = "SOA" -> {"serial", "refresh", "retry", "expire", "minimum"}
      [] cls = "MX" -> {"preference"}
      [] cls = "SRV" -> {"priority", "weight", "port"}
      [] OTHER -> {}

\* DNSRecord.__init__(id_, name, idn_name, ttl, **kwargs): any other keyword
\* (an "id" among them) lands in **kwargs and is dropped.
DNSRecord__init__(kwargs) ==
    LET id_ == Get(kwargs, "id_", PyNone)
        id == IF id_ # PyNone THEN int(id_) ELSE PyNone
        name == Get(kwargs, "name", PyStr(""))
        idn_name == Get(kwargs, "idn_name", PyNone)
    IN  IF IsErr(id) THEN id
        ELSE IF id = PyInt(0) THEN Raise("ValueError", "Invalid record ID!")
        ELSE [cls |-> "DNSRecord",
              id |-> id,
              name |-> name,
              idn_name |-> IF idn_name # PyNone THEN idn_name ELSE name,
              ttl |-> Get(kwargs, "ttl", PyNone),
              fields |-> <<>>]

\* cls(**kwargs): a subclass binds its own parameters (TypeError when one is
\* missing), calls super().__init__(**kwargs) with the rest, then stores its
\* fields, the numeric ones through int().
__init__(cls, kwargs) ==
    IF cls = "DNSRecord" THEN DNSRecord__init__(kwargs)
    ELSE IF ~(Params(cls) \subseteq DOMAIN kwargs) THEN Err("TypeError")
    ELSE LET base == DNSRecord__init__(Without(kwargs, Params(cls)))
             fields == [p \in Params(cls) |->
                           IF p \in IntParams(cls) THEN int(kwargs[p])
                           ELSE kwargs[p]]
         IN  IF IsErr(base) THEN base
             ELSE IF \E p \in IntParams(cls) : IsErr(fields[p])
             THEN fields[CHOOSE p \in IntParams(cls) : IsErr(fields[p])]
             ELSE [base EXCEPT !.cls = cls, !.fields = fields]

\* DNSRecord.to_xml(base_name): the id attribute is set to self.id as it is.
DNSRecord_to_xml(rec, base_name) ==
    Element(base_name,
            [NoAttrib EXCEPT !.id = rec.id],
            PyNone,
            <<Leaf("name", rec.name)>>
            \o (IF rec.idn_name # PyNone
                THEN <<Leaf("idn-name", rec.idn_name)>> ELSE <<>>)
            \o (IF rec.ttl # PyNone
                THEN <<Leaf("ttl", str(rec.ttl))>> ELSE <<>>)
            \o (IF type_name(rec.cls) # PyNone
                THEN <<Leaf("type", type_name(rec.cls))>> ELSE <<>>))

\* The sub-element each subclass's to_xml appends to super().to_xml().
\* SOA's mname and rname are base DNSRecord objects encoded with
\* to_xml("mname") and to_xml("rname").
variant_xml(rec) ==
    LET f == rec.fields IN
    CASE rec.cls = "SOA" ->
            Node("soa", <<Leaf("serial", str(f.serial)),
                          Leaf("refresh", str(f.refresh)),
                          Leaf("retry", str(f.retry)),
                          Leaf("expire", str(f.expire)),
                          Leaf("minimum", str(f.minimum)),
                          DNSRecord_to_xml(f.mname, "mname"),
                          DNSRecord_to_xml(f.rname, "rname")>>)
      [] rec.cls = "NS" -> Node("ns", <<Leaf("name", f.ns_name)>>)
      [] rec.cls = "A" -> Leaf("a", f.a)
      [] rec.cls = "AAAA" -> Leaf("aaaa", f.aaaa)
      [] rec.cls = "CNAME" -> Node("cname", <<Leaf("name", f.cname)>>)
      [] rec.cls = "MX" ->
            Node("mx", <<Leaf("preference", str(f.preference)),
                         Node("exchange", <<Leaf("name", f.exchange)>>)>>)
      [] rec.cls = "TXT" -> Node("txt", <<Leaf("string", f.txt)>>)
      [] rec.cls = "SRV" ->
            Node("srv", <<Leaf("priority", str(f.priority)),
                          Leaf("weight", str(f.weight)),
                          Leaf("port", str(f.port)),
                          Node("target", <<Leaf("name", f.target)>>)>>)
      [] rec.cls = "PTR" -> Node("ptr", <<Leaf("name", f.ptr_name)>>)

\* record.to_xml()
to_xml(rec) ==
    LET root == DNSRecord_to_xml(rec, "rr") IN
    IF rec.cls = "DNSRecord" THEN root
    ELSE [root EXCEPT !.kids = Append(root.kids, variant_xml(rec))]

\* Where each subclass's _get_kwargs reads its text fields, in the order it
\* reads them: <<keyword, path under the record element>>.
FieldPaths(cls) ==
    CASE cls = "SOA" -> << <<"serial", <<"soa", "serial">> >>,
                           <<"refresh", <<"soa", "refresh">> >>,
                           <<"retry", <<"soa", "retry">> >>,
                           <<"expire", <<"soa", "expire">> >>,
                           <<"minimum", <<"soa", "minimum">> >> >>
      [] cls = "NS" -> << <<"ns_name", <<"ns", "name">> >> >>
      [] cls = "A" -> << <<"a", <<"a">> >> >>
      [] cls = "AAAA" -> << <<"aaaa", <<"aaaa">> >> >>
      [] cls = "CNAME" -> << <<"cname", <<"cname", "name">> >> >>
      [] cls = "MX" -> << <<"preference", <<"mx", "preference">> >>,
                          <<"exchange", <<"mx", "exchange", "name">> >> >>
      [] cls = "SRV" -> << <<"priority", <<"srv", "priority">> >>,
                           <<"weight", <<"srv", "weight">> >>,
                           <<"port", <<"srv", "port">> >>,
                           <<"target", <<"srv", "target", "name">> >> >>
      [] cls = "PTR" -> << <<"ptr_name", <<"ptr", "name">> >> >>
      [] OTHER -> <<>>

\* DNSRecord._find_field(obj, path, key): the element, or ValueError.
_find_field(obj, path) ==
    LET el == find(obj, path) IN
    IF IsElement(el) THEN el
    ELSE Raise("ValueError", "The field not found")

\* DNSRecord._get_kwargs: the attribute is stored under the keyword "id".
DNSRecord_get_kwargs(obj) ==
    LET name == find(obj, <<"name">>)
        idn == find(obj, <<"idn-name">>)
        ttl == find(obj, <<"ttl">>)
        keys == {"id", "name"}
                \cup (IF IsElement(idn) THEN {"idn_name"} ELSE {})
                \cup (IF IsElement(ttl) THEN {"ttl"} ELSE {})
    IN  IF ~IsElement(name) THEN Err("AttributeError")
        ELSE [k \in keys |->
                CASE k = "id" -> obj.attrib.id
                  [] k = "name" -> name.text
                  [] k = "idn_name" -> idn.text
                  [] k = "ttl" -> ttl.text]

\* DNSRecord.from_xml on the base class: type_name is None, nothing to verify.
DNSRecord_from_xml(obj) ==
    LET kwargs == DNSRecord_get_kwargs(obj) IN
    IF IsErr(kwargs) THEN kwargs ELSE DNSRecord__init__(kwargs)

\* SOARecord._get_kwargs' second loop: mname and rname are decoded with
\* DNSRecord.from_xml from the elements under soa/.
soa_names(obj, kwargs) ==
    LET m_el == _find_field(obj, <<"soa", "mname">>)
        r_el == _find_field(obj, <<"soa", "rname">>)
        m == IF IsErr(m_el) THEN m_el ELSE DNSRecord_from_xml(m_el)
        r == IF IsErr(r_el) THEN r_el ELSE DNSRecord_from_xml(r_el)
    IN  IF IsErr(m) THEN m
        ELSE IF IsErr(r) THEN r
        ELSE ("mname" :> m) @@ ("rname" :> r) @@ kwargs

\* cls._get_kwargs(obj)
_get_kwargs(cls, obj) ==
    LET base == DNSRecord_get_kwargs(obj)
        fp == FieldPaths(cls)
        els == [i \in 1..Len(fp) |-> _find_field(obj, fp[i][2])]
        texts == [k \in {fp[i][1] : i \in 1..Len(fp)} |->
                    els[CHOOSE i \in 1..Len(fp) : fp[i][1] = k].text]
        strings == findall(obj, <<"txt", "string">>)
    IN  IF IsErr(base) THEN base
        ELSE IF \E i \in 1..Len(fp) : IsErr(els[i])
        THEN els[CHOOSE i \in 1..Len(fp) : IsErr(els[i])]
        ELSE IF cls = "SOA" THEN soa_names(obj, texts @@ base)
        ELSE IF cls = "TXT"
        THEN (IF Len(strings) = 1
              THEN ("txt" :> strings[1].text) @@ base ELSE base)
        ELSE texts @@ base

\* A create that decodes an unregistered type with the base class.
create_fallback(obj) ==
    LET _type == find(obj, <<"type">>)
        hits == {i \in 1..Len(Subclasses) :
                    IsElement(_type) /\ type_name(Subclasses[i]) = _type.text}
    IN  IF ~IsElement(_type) THEN Err("AttributeError")
        ELSE LET cls == IF hits = {} THEN "DNSRecord"
                        ELSE Subclasses[CHOOSE i \in hits :
                                            \A j \in hits : i <= j]
                 kwargs == _get_kwargs(cls, obj)
             IN  IF IsErr(kwargs) THEN kwargs ELSE __init__(cls, kwargs)

\* A from_xml that decodes without looking at the type tag.
from_xml_unverified(cls, obj) ==
    LET kwargs == _get_kwargs(cls, obj) IN
    IF IsErr(kwargs) THEN kwargs ELSE __init__(cls, kwargs)

\* cls.from_xml(obj): verify the type tag unless cls is the base class, then
\* cls(**cls._get_kwargs(obj)).
from_xml(cls, obj) ==
    LET _type == find(obj, <<"type">>)
        kwargs == _get_kwargs(cls, obj)
    IN  IF type_name(cls) # PyNone /\ ~IsElement(_type)
        THEN Err("AttributeError")
        ELSE IF type_name(cls) # PyNone /\ _type.text # type_name(cls)
        THEN Raise("ValueError", "Record is not a record of the class")
        ELSE IF IsErr(kwargs) THEN kwargs
        ELSE __init__(cls, kwargs)

\* DNSRecord.create(obj): the first subclass whose type_name is the element's
\* type text decodes it; TypeError when there is none.
create(obj) ==
    LET _type == find(obj, <<"type">>)
        hits == {i \in 1..Len(Subclasses) :
                    IsElement(_type) /\ type_name(Subclasses[i]) = _type.text}
    IN  IF ~IsElement(_type) THEN Err("AttributeError")
        ELSE IF hits = {} THEN Raise("TypeError", "Unknown record type")
        ELSE from_xml(Subclasses[CHOOSE i \in hits : \A j \in hits : i <= j],
                      obj)

\* ------------------------------------------------- record codec: the inputs
Absent == [py |-> "absent"]
Names == {PyStr("a"), PyStr("b")}
IntVals == {PyInt(n) : n \in 1..MaxInt}
\* the name-only records given as a SOA's mname and rname
NameRecords == {DNSRecord__init__("name" :> n) : n \in Names}

\* the values a constructor call gives to the parameters of cls
FieldArgs(cls, ints) ==
    LET nested == Params(cls) \cap {"mname", "rname"}
        texts == (Params(cls) \ IntParams(cls)) \ nested
    IN  {i @@ n @@ t : i \in [IntParams(cls) -> ints],
                       n \in [nested -> NameRecords],
                       t \in [texts -> Names]}

\* the keyword arguments given: those that are not left out
Given(args) == [k \in {k \in DOMAIN args : args[k] # Absent} |-> args[k]]

\* what a server puts in place of the type tag of a record it sends
TypeTexts == {PyStr(Subclasses[i]) : i \in 1..Len(Subclasses)}
             \cup {PyStr("UNKNOWN"), PyStr("LOC"), PyStr("a"), PyNone}

\* el with the text of its type child replaced
with_type(el, text) ==
    [el EXCEPT !.kids = [i \in 1..Len(el.kids) |->
        IF el.kids[i].tag = "type" THEN [el.kids[i] EXCEPT !.text = text]
        ELSE el.kids[i]]]

\* ------------------------------------------------ record codec: the steps
CodecInit ==
    /\ c_pc = "start"
    /\ c_in = PyNone
    /\ c_rec = PyNone
    /\ c_xml = PyNone
    /\ c_out = PyNone

\* A caller constructs a record of one of the nine variants.
codec_new ==
    /\ c_pc = "start"
    /\ \E cls \in SubclassSet :
         \E f \in FieldArgs(cls, IntVals),
            id_ \in {Absent, PyInt(0), PyInt(1), PyStr("0")},
            name \in Names,
            idn_name \in {Absent} \cup Names,
            ttl \in {Absent, PyStr("5")} :
            LET kwargs == f @@ Given([id_ |-> id_, name |-> name,
                                      idn_name |-> idn_name, ttl |-> ttl])
                rec == __init__(cls, kwargs)
            IN  /\ c_in' = [call |-> "new", cls |-> cls, kwargs |-> kwargs]
                /\ c_rec' = rec
                /\ c_pc' = IF IsErr(rec) THEN "raised" ELSE "built"
    /\ UNCHANGED <<token_vars, envelope_vars, api_vars, c_xml, c_out>>

\* record.to_xml()
codec_to_xml ==
    /\ c_pc = "built"
    /\ c_xml' = to_xml(c_rec)
    /\ c_pc' = "encoded"
    /\ UNCHANGED <<token_vars, envelope_vars, api_vars, c_in, c_rec, c_out>>

\* type(record).from_xml(element) on the element to_xml produced
codec_from_xml ==
    /\ c_pc = "encoded"
    /\ c_out' = from_xml(c_rec.cls, c_xml)
    /\ c_pc' = "decoded"
    /\ UNCHANGED <<token_vars, envelope_vars, api_vars, c_in, c_rec, c_xml>>

\* A server response is parsed: an rr element of some variant's shape, every
\* attribute and text a string, with an id attribute or none and any type tag.
codec_receive ==
    /\ c_pc = "start"
    /\ \E cls \in SubclassSet :
         \E f \in FieldArgs(cls, {PyInt(1)}),
            id \in {PyNone, PyStr("0"), PyStr("7")},
            name \in Names,
            ttl \in {Absent, PyStr("5")},
            ty \in TypeTexts \cup {Absent} :
            LET rec == __init__(cls, f @@ Given([name |-> name, ttl |-> ttl]))
                el == to_xml(rec)
                sent == IF ty = Absent
                        THEN [el EXCEPT !.kids =
                                SelectSeq(el.kids, LAMBDA k : k.tag # "type")]
                        ELSE with_type(el, ty)
            IN  /\ c_in' = [call |-> "wire", cls |-> cls, type |-> ty]
                /\ c_xml' = [sent EXCEPT !.attrib.id = id]
                /\ c_pc' = "received"
    /\ UNCHANGED <<token_vars, envelope_vars, api_vars, c_rec, c_out>>

\* V.from_xml(element) on the element received, V any of the nine variants
codec_from_xml_as ==
    /\ c_pc = "received"
    /\ \E cls \in SubclassSet :
         /\ c_in' = [call |-> "from_xml", cls |-> c_in.cls,
                     type |-> c_in.type, variant |-> cls]
         /\ c_out' = from_xml(cls, c_xml)
    /\ c_pc' = "verified"
    /\ UNCHANGED <<token_vars, envelope_vars, api_vars, c_rec, c_xml>>

\* DNSRecord.create(element)
codec_create ==
    /\ c_pc = "received"
    /\ c_out' = create(c_xml)
    /\ c_pc' = "created"
    /\ UNCHANGED <<token_vars, envelope_vars, api_vars, c_in, c_rec, c_xml>>

\* ----------------------------------------------------------- specifications
\* The part of the state a specification leaves alone.
\* ------------------------------------------------------- response envelope
\* Text that is built character by character (an error's code and message,
\* the error text of a response) is a sequence of characters.
MaxErrors == 2

Whitespace == {" "}

\* a Python list
PyList(s) == [py |-> "list", v |-> s]

\* "{}".format(x): None is rendered as the word None
format_arg(x) == IF x = PyNone THEN <<"N", "o", "n", "e">> ELSE x.v

\* str.strip(): leading and trailing whitespace removed
RECURSIVE lstrip(_)
lstrip(s) ==
    IF s # <<>> /\ Head(s) \in Whitespace THEN lstrip(Tail(s)) ELSE s

RECURSIVE rstrip(_)
rstrip(s) ==
    IF s # <<>> /\ s[Len(s)] \in Whitespace
    THEN rstrip(SubSeq(s, 1, Len(s) - 1)) ELSE s

strip(s) == rstrip(lstrip(s))

\* item.attrib.get("code", "")
attrib_get_code(item) ==
    IF item.attrib.code = PyNone THEN PyStr(<<>>) ELSE item.attrib.code

\* The loop of _parse_answer over root.findall('errors/error'):
\* error += " Code: {}. {}".format(item.attrib.get("code", ""), item.text)
RECURSIVE errors_text(_)
errors_text(items) ==
    IF items = <<>> THEN <<>>
    ELSE <<" ", "C", "o", "d", "e", ":", " ">>
         \o format_arg(attrib_get_code(Head(items)))
         \o <<".", " ">>
         \o format_arg(Head(items).text)
         \o errors_text(Tail(items))

\* A response body: the document it holds when it is well-formed XML.
Body(root) == [xml |-> root]
Unparseable == [xml |-> PyNone]

\* ET.fromstring(body)
fromstring(body) ==
    IF body.xml = PyNone THEN Err("ParseError") ELSE body.xml

\* raise e(text) with a text built character by character
RaiseText(e, text) == [err |-> e, text |-> text]
\* raise e("<msg> {}".format(body)): the message with the raw body embedded
RaiseBody(e, msg, body) == [err |-> e, msg |-> msg, body |-> body]

\* A _parse_answer that takes a missing status element for a status of None.
_parse_answer_lenient(body) ==
    LET root == fromstring(body) IN
    IF IsErr(root) THEN root
    ELSE LET data == find(root, <<"data">>)
             status == find(root, <<"status">>)
         IN  [status |-> IF IsElement(status) THEN status.text ELSE PyNone,
              error |-> strip(errors_text(
                           findall(root, <<"errors", "error">>))),
              data |-> data]

\* NICApi._parse_answer(body): (status, error, data), or the exception.
_parse_answer(body) ==
    LET root == fromstring(body) IN
    IF IsErr(root) THEN root
    ELSE LET data == find(root, <<"data">>)
             status == find(root, <<"status">>)
         IN  IF ~IsElement(status)
             THEN RaiseBody("DnsApiException",
                            "Can't find <status> in response: ", body)
             ELSE [status |-> status.text,
                   error |-> strip(errors_text(
                                findall(root, <<"errors", "error">>))),
                   data |-> data]

\* A _request_data that pays no attention to its two flags.
_request_data_no_flags(body, data_as_list, data_none_except) ==
    LET answer == _parse_answer(body) IN
    IF IsErr(answer) THEN answer
    ELSE IF answer.status # PyStr("success")
    THEN RaiseText("DnsApiException", answer.error)
    ELSE answer.data

\* NICApi._request_data on the body of the response _request returned:
\* the data element, [] or None, or the exception.
_request_data(body, data_as_list, data_none_except) ==
    LET answer == _parse_answer(body) IN
    IF IsErr(answer) THEN answer
    ELSE IF answer.status # PyStr("success")
    THEN RaiseText("DnsApiException", answer.error)
    ELSE IF data_as_list /\ answer.data = PyNone THEN PyList(<<>>)
    ELSE IF data_none_except /\ answer.data = PyNone
    THEN RaiseBody("DnsApiException",
                   "Can't find <data> in response: ", body)
    ELSE answer.data

\* parse_record, which api.py imports from models: the codec's dispatcher.
parse_record(rr) == create(rr)

\* [parse_record(rr) for rr in rrs], done being the records decoded so far:
\* the first exception ends the loop.
RECURSIVE parse_records(_, _)
parse_records(rrs, done) ==
    IF rrs = <<>> THEN PyList(done)
    ELSE LET record == parse_record(Head(rrs)) IN
         IF IsErr(record) THEN record
         ELSE parse_records(Tail(rrs), Append(done, record))

\* NICApi.records(service, zone) on the body of the response: the list of
\* records, or the exception. The zone check is an assert statement.
records(zone_arg, default_zone, body) ==
    LET zone == IF zone_arg = PyNone THEN default_zone ELSE zone_arg
        data == _request_data(body, FALSE, TRUE)
    IN  IF IsErr(data) THEN data
        ELSE LET _zone == find(data, <<"zone">>) IN
             IF ~IsElement(_zone) THEN Err("AttributeError")
             ELSE IF _zone.attrib.name = PyNone THEN Err("KeyError")
             ELSE IF _zone.attrib.name # zone THEN Err("AssertionError")
             ELSE parse_records(findall(_zone, <<"rr">>), <<>>)

\* ------------------------------------------------ response envelope: inputs
ZoneNames == {PyStr("example.ru"), PyStr("zone.none")}

\* what a server puts in a status element, an error's code and its message
StatusTexts == {PyStr("success"), PyStr("fail"), PyNone}
ErrorCodes == {PyNone, PyStr(<<"1">>)}
ErrorTexts == {PyNone, PyStr(<<"A">>), PyStr(<<"B", " ">>)}

ErrorElements ==
    {Element("error", [NoAttrib EXCEPT !.code = c], t, <<>>) :
        c \in ErrorCodes, t \in ErrorTexts}

\* sequences of at most n elements of S
RECURSIVE SeqsUpTo(_, _)
SeqsUpTo(S, n) ==
    IF n = 0 THEN {<<>>}
    ELSE LET shorter == SeqsUpTo(S, n - 1) IN
         shorter \cup {Append(s, x) : s \in shorter, x \in S}

\* the rr elements of a zone: a well-formed A record, and one of no known type
rr_a == [to_xml(__init__("A", ("name" :> PyStr("a")) @@ ("a" :> PyStr("b"))))
            EXCEPT !.attrib.id = PyStr("7")]
RRLists == {<<>>, <<rr_a>>, <<rr_a, with_type(rr_a, PyStr("UNKNOWN"))>>}

ZoneElements ==
    {Element("zone", [NoAttrib EXCEPT !.name = n], PyNone, rrs) :
        n \in ZoneNames \cup {PyNone}, rrs \in RRLists}

\* the optional children of a response element
StatusParts == {<<>>} \cup {<<Leaf("status", t)>> : t \in StatusTexts}
ErrorsParts ==
    {<<>>} \cup {<<Node("errors", es)>> : es \in SeqsUpTo(ErrorElements, MaxErrors)}
DataParts ==
    {<<>>, <<Node("data", <<>>)>>} \cup {<<Node("data", <<z>>)>> : z \in ZoneElements}

Bodies ==
    {Unparseable}
    \cup {Body(Node("response", s \o e \o d)) :
            s \in StatusParts, e \in ErrorsParts, d \in DataParts}

\* ------------------------------------------------- response envelope: steps
EnvelopeIdle ==
    /\ e_pc = "idle"
    /\ e_call = PyNone
    /\ e_body = PyNone
    /\ e_result = PyNone

EnvelopeInit ==
    /\ EnvelopeIdle
    /\ _default_zone \in {PyNone, PyStr("example.ru")}

\* A caller awaits _request_data(..., data_as_list, data_none_except): the
\* request of _request is on its way.
call_request_data ==
    /\ e_pc = "idle"
    /\ \E data_as_list \in BOOLEAN, data_none_except \in BOOLEAN :
         e_call' = [name |-> "_request_data",
                    data_as_list |-> data_as_list,
                    data_none_except |-> data_none_except]
    /\ e_pc' = "requested"
    /\ UNCHANGED <<token_vars, codec_vars, api_vars, _default_zone, e_body, e_result>>

\* A caller awaits records(service, zone).
call_records ==
    /\ e_pc = "idle"
    /\ \E zone \in ZoneNames \cup {PyNone} :
         e_call' = [name |-> "records", zone |-> zone]
    /\ e_pc' = "requested"
    /\ UNCHANGED <<token_vars, codec_vars, api_vars, _default_zone, e_body, e_result>>

\* _request returns the server's response.
respond ==
    /\ e_pc = "requested"
    /\ e_body' \in Bodies
    /\ e_pc' = "responded"
    /\ UNCHANGED <<token_vars, codec_vars, api_vars, _default_zone, e_call, e_result>>

\* _request_data runs on the response and returns or raises.
return_request_data ==
    /\ e_pc = "responded"
    /\ e_call.name = "_request_data"
    /\ e_result' = _request_data(e_body, e_call.data_as_list,
                                 e_call.data_none_except)
    /\ e_pc' = "done"
    /\ UNCHANGED <<token_vars, codec_vars, api_vars, _default_zone, e_call, e_body>>

\* records runs on the response and returns or raises.
return_records ==
    /\ e_pc = "responded"
    /\ e_call.name = "records"
    /\ e_result' = records(e_call.zone, _default_zone, e_body)
    /\ e_pc' = "done"
    /\ UNCHANGED <<token_vars, codec_vars, api_vars, _default_zone, e_call, e_body>>

\* -------------------------------------------------- the public operations
MaxRecords == 2

\* Python values: a bool, a tuple
PyBool(b) == [py |-> "bool", v |-> b]
PyTuple(s) == [py |-> "tuple", v |-> s]

\* A dict of attributes: the keys that are set, and their values.
attrib_keys(obj) == {k \in DOMAIN obj.attrib : obj.attrib[k] # PyNone}

\* k.replace('-', '_') on the attribute names of service and zone elements
replace_dash(k) ==
    CASE k = "domains-limit" -> "domains_limit"
      [] k = "domains-num" -> "domains_num"
      [] k = "has-primary" -> "has_primary"
      [] k = "has-changes" -> "has_changes"
      [] k = "idn-name" -> "idn_name"
      [] k = "rr-limit" -> "rr_limit"
      [] k = "rr-num" -> "rr_num"
      [] OTHER -> k

\* {k.replace('-', '_'): v for k, v in obj.attrib.items()}
attrib_kwargs(obj) ==
    [k \in {replace_dash(a) : a \in attrib_keys(obj)} |->
        obj.attrib[CHOOSE a \in attrib_keys(obj) : replace_dash(a) = k]]

\* str.lower() on the texts a boolean attribute takes
lower(s) ==
    CASE s = PyStr("True") -> PyStr("true")
      [] s = PyStr("False") -> PyStr("false")
      [] OTHER -> s

\* GenericXML._str2bool: {'true': True, 'false': False}[value.lower()]
_str2bool(value) ==
    CASE lower(value) = PyStr("true") -> PyBool(TRUE)
      [] lower(value) = PyStr("false") -> PyBool(FALSE)
      [] OTHER -> Err("KeyError")

\* kwargs[k] = cls._str2bool(kwargs[k]) for the keys ks, in order; KeyError
\* when a key is missing or its text is no boolean.
RECURSIVE str2bool_keys(_, _)
str2bool_keys(kwargs, ks) ==
    IF ks = <<>> THEN kwargs
    ELSE IF Head(ks) \notin DOMAIN kwargs THEN Err("KeyError")
    ELSE LET b == _str2bool(kwargs[Head(ks)]) IN
         IF IsErr(b) THEN b
         ELSE str2bool_keys([kwargs EXCEPT ![Head(ks)] = b], Tail(ks))

\* The parameters of NICService.__init__ and NICZone.__init__.
NICServiceRequired == {"admin", "domains_limit", "domains_num", "enable",
                       "has_primary", "name", "payer", "tariff"}
NICServiceOptional == {"rr_limit", "rr_num"}
NICZoneRequired == {"admin", "enable", "has_changes", "has_primary", "id_",
                    "idn_name", "name", "payer", "service"}

\* cls(**kwargs) for the two classes: TypeError on a missing or an unexpected
\* keyword, the numeric parameters through int().
NIC__init__(cls, required, optional, ints, kwargs) ==
    IF ~(required \subseteq DOMAIN kwargs)
       \/ ~(DOMAIN kwargs \subseteq required \cup optional)
    THEN Err("TypeError")
    ELSE LET fields == [k \in DOMAIN kwargs |->
                           IF k \in ints THEN int(kwargs[k]) ELSE kwargs[k]]
             bad == {k \in DOMAIN kwargs \cap ints : IsErr(fields[k])}
         IN  IF bad # {} THEN fields[CHOOSE k \in bad : TRUE]
             ELSE [cls |-> cls, fields |-> fields]

\* NICService.from_xml(obj)
NICService_from_xml(obj) ==
    LET kwargs == str2bool_keys(attrib_kwargs(obj), <<"enable", "has_primary">>)
    IN  IF IsErr(kwargs) THEN kwargs
        ELSE NIC__init__("NICService", NICServiceRequired, NICServiceOptional,
                         {"domains_limit", "domains_num", "rr_limit", "rr_num"},
                         kwargs)

\* NICZone.from_xml(obj): the id attribute becomes the keyword id_.
NICZone_from_xml(obj) ==
    LET attrs == attrib_kwargs(obj)
        renamed == [k \in (DOMAIN attrs \ {"id"}) \cup {"id_"} |->
                       IF k = "id_" THEN attrs["id"] ELSE attrs[k]]
    IN  IF "id" \notin DOMAIN attrs THEN Err("KeyError")
        ELSE LET kwargs == str2bool_keys(renamed, <<"enable", "has_changes",
                                                    "has_primary">>)
             IN  IF IsErr(kwargs) THEN kwargs
                 ELSE NIC__init__("NICZone", NICZoneRequired, {}, {"id_"},
                                  kwargs)

\* [cls.from_xml(x) for x in data]: data is the data element or []; the
\* first exception ends the loop.
RECURSIVE from_xml_each(_, _, _)
from_xml_each(cls, items, done) ==
    IF items = <<>> THEN PyList(done)
    ELSE LET obj == IF cls = "NICService" THEN NICService_from_xml(Head(items))
                    ELSE NICZone_from_xml(Head(items))
         IN  IF IsErr(obj) THEN obj
             ELSE from_xml_each(cls, Tail(items), Append(done, obj))

\* iterating the data element gives its children, iterating [] nothing
children(data) == IF IsElement(data) THEN data.kids ELSE data.v

\* A response: response.ok and the text of its body.
Response(ok, body) == [ok |-> ok, body |-> body]

\* A _request that never checks the HTTP status.
_request_unchecked(response, check_status) == response

\* NICApi._request once session.request has returned: the response, or the
\* exception when check_status is set and the response is not ok.
_request_checked(response, check_status) ==
    IF check_status /\ ~response.ok
    THEN RaiseBody("DnsApiException", "HTTP Error. Body: ", response.body)
    ELSE response

\* NICApi.services on the response
services(response) ==
    LET data == _request_data(_request_checked(response, FALSE).body,
                              TRUE, FALSE)
    IN  IF IsErr(data) THEN data
        ELSE from_xml_each("NICService", children(data), <<>>)

\* NICApi.zones on the response
zones(response) ==
    LET data == _request_data(_request_checked(response, FALSE).body,
                              TRUE, FALSE)
    IN  IF IsErr(data) THEN data
        ELSE from_xml_each("NICZone", children(data), <<>>)

\* NICApi.zonefile on the response: the text of the body, no envelope.
zonefile(response) ==
    LET checked == _request_checked(response, TRUE) IN
    IF IsErr(checked) THEN checked ELSE checked.body

\* delete_record, commit, rollback and the end of add_record on the
\* response: await self._request_data(...), nothing returned.
no_result(response) ==
    LET data == _request_data(_request_checked(response, FALSE).body,
                              FALSE, FALSE)
    IN  IF IsErr(data) THEN data ELSE PyNone

\* hasattr(arg, name): the attributes of a str, a list, a tuple; None and a
\* record object have none of the three _is_sequence asks for.
hasattr(arg, name) ==
    IF "py" \notin DOMAIN arg THEN FALSE
    ELSE CASE arg.py = "str" -> name \in {"strip", "__getitem__", "__iter__"}
           [] arg.py \in {"list", "tuple"} -> name \in {"__getitem__", "__iter__"}
           [] OTHER -> FALSE

\* NICApi._is_sequence: (not A and B) or C, as Python groups it.
_is_sequence(arg) ==
    (~hasattr(arg, "strip") /\ hasattr(arg, "__getitem__"))
    \/ hasattr(arg, "__iter__")

\* list(arg): the elements of a list or tuple, the characters of a str
list(arg) ==
    IF arg.py = "str" THEN [i \in 1..Len(arg.v) |-> PyStr(<<arg.v[i]>>)]
    ELSE arg.v

\* _RECORD_CLASSES_CAN_ADD
_RECORD_CLASSES_CAN_ADD == {"A", "AAAA", "CNAME", "TXT"}

\* An isinstance check that lets every record class through.
isinstance_any_record(record, classes) == "cls" \in DOMAIN record

\* isinstance(record, classes)
isinstance(record, classes) ==
    "cls" \in DOMAIN record /\ record.cls \in classes

\* The loop of add_record: TypeError at the first element that is no
\* writable record, else the list of the elements' to_xml().
RECURSIVE rr_list(_, _)
rr_list(_records, done) ==
    IF _records = <<>> THEN PyList(done)
    ELSE IF ~isinstance(Head(_records), _RECORD_CLASSES_CAN_ADD)
    THEN Raise("TypeError", "is not a valid DNS record!")
    ELSE rr_list(Tail(_records), Append(done, to_xml(Head(_records))))

\* The names api.py binds at module level: its imports and definitions.
api_globals == {"logging", "Callable", "List", "Tuple", "Optional", "ET",
                "aiohttp", "OAuth2Session", "LegacyApplicationClient",
                "TokenExpiredError", "InvalidGrantError", "DnsApiException",
                "parse_record", "NICService", "NICZone", "DNSRecord",
                "SOARecord", "NSRecord", "ARecord", "AAAARecord",
                "CNAMERecord", "MXRecord", "TXTRecord",
                "_RECORD_CLASSES_CAN_ADD", "NICApi"}

\* textwrap.dedent(...).format('\n'.join(rr_list)): the request body, a
\* request element holding an rr-list. The name textwrap is looked up first;
\* str.join takes strings only, and to_xml gives elements.
request_xml(rrs) ==
    IF "textwrap" \notin api_globals THEN Err("NameError")
    ELSE IF rrs # <<>> THEN Err("TypeError")
    ELSE Node("request", <<Node("rr-list", rrs)>>)

\* _records = list(records) if self._is_sequence(records) else [records]
_records(records_arg) ==
    IF _is_sequence(records_arg) THEN list(records_arg) ELSE <<records_arg>>

\* add_record up to its await of _request_data: the body of the PUT, or the
\* exception.
add_record(records_arg) ==
    LET rrs == rr_list(_records(records_arg), <<>>)
    IN  IF IsErr(rrs) THEN rrs ELSE request_xml(rrs.v)

\* ------------------------------------------- the public operations: inputs
\* a service element and a zone element as the server sends them, and ones
\* with an attribute missing
service_el ==
    Element("service",
            ("admin" :> PyStr("123/NIC-REG")) @@ ("domains-limit" :> PyStr("5"))
            @@ ("domains-num" :> PyStr("5")) @@ ("enable" :> PyStr("true"))
            @@ ("has-primary" :> PyStr("false")) @@ ("name" :> PyStr("testservice"))
            @@ ("payer" :> PyStr("123/NIC-REG")) @@ ("tariff" :> PyStr("Secondary L"))
            @@ ("rr_num" :> PyStr("9")),
            PyNone, <<>>)
zone_el ==
    Element("zone",
            ("admin" :> PyStr("123/NIC-REG")) @@ ("enable" :> PyStr("true"))
            @@ ("has-changes" :> PyStr("false")) @@ ("has-primary" :> PyStr("true"))
            @@ ("id" :> PyStr("7")) @@ ("idn-name" :> PyStr("example.ru"))
            @@ ("name" :> PyStr("example.ru")) @@ ("payer" :> PyStr("123/NIC-REG"))
            @@ ("service" :> PyStr("myservice")),
            PyNone, <<>>)
unset(el, k) == [el EXCEPT !.attrib[k] = PyNone]

ApiDataParts ==
    DataParts
    \cup {<<Node("data", kids)>> :
            kids \in {<<service_el>>,
                      <<service_el, unset(service_el, "enable")>>,
                      <<zone_el>>,
                      <<zone_el, unset(zone_el, "id")>>}}

\* the responses a server gives to an operation
Responses ==
    {Response(ok, body) :
        ok \in BOOLEAN,
        body \in {Unparseable}
                 \cup {Body(Node("response", s \o e \o d)) :
                         s \in StatusParts,
                         e \in {<<>>} \cup {<<Node("errors", es)>> :
                                   es \in {<<>>} \cup {<<x>> : x \in ErrorElements}},
                         d \in ApiDataParts}}

\* records a caller has in hand, one of each of six variants
a_record(cls) ==
    __init__(cls, [p \in Params(cls) |->
                     IF p \in IntParams(cls) THEN PyInt(1) ELSE PyStr("b")]
                  @@ ("name" :> PyStr("a")))
HeldRecords == {a_record(cls) : cls \in {"A", "AAAA", "CNAME", "TXT", "MX", "NS"}}

\* what a caller passes to add_record as records
AddRecordArgs ==
    HeldRecords
    \cup {PyNone, PyStr(<<>>), PyStr(<<"a", "b">>)}
    \cup {PyList(s) : s \in SeqsUpTo({a_record("A"), a_record("TXT"),
                                      a_record("MX")}, MaxRecords)}
    \cup {PyTuple(s) : s \in SeqsUpTo({a_record("A"), a_record("MX")},
                                       MaxRecords)}

\* -------------------------------------------- the public operations: steps
ApiInit ==
    /\ a_pc = "idle"
    /\ a_call = PyNone
    /\ a_requests = <<>>
    /\ a_response = PyNone
    /\ a_result = PyNone

\* default_service of NICApi.__init__
_default_service == PyNone

\* self._default_x if x is None else x
or_default(arg, default) == IF arg = PyNone THEN default ELSE arg

\* The request an operation hands to _request: method, rpath, data.
Request(method, rpath, data) ==
    [method |-> method, rpath |-> rpath, data |-> data]

\* services(): the GET goes out.
op_services ==
    /\ a_pc = "idle"
    /\ a_call' = [name |-> "services"]
    /\ a_requests' = Append(a_requests, Request("GET", <<"services">>, PyNone))
    /\ a_pc' = "requested"
    /\ UNCHANGED <<token_vars, codec_vars, envelope_vars, a_response, a_result>>

\* zones(service): the GET goes out, on /zones when there is no service.
op_zones ==
    /\ a_pc = "idle"
    /\ \E service \in {PyNone, PyStr("myservice")} :
         LET s == or_default(service, _default_service) IN
         /\ a_call' = [name |-> "zones", service |-> service]
         /\ a_requests' =
              Append(a_requests,
                     Request("GET",
                             IF s = PyNone THEN <<"zones">>
                             ELSE <<"services", s, "zones">>,
                             PyNone))
    /\ a_pc' = "requested"
    /\ UNCHANGED <<token_vars, codec_vars, envelope_vars, a_response, a_result>>

\* zonefile(service, zone): the GET goes out.
op_zonefile ==
    /\ a_pc = "idle"
    /\ \E zone \in ZoneNames \cup {PyNone} :
         /\ a_call' = [name |-> "zonefile", zone |-> zone]
         /\ a_requests' =
              Append(a_requests,
                     Request("GET",
                             <<"services", _default_service, "zones",
                               or_default(zone, _default_zone)>>,
                             PyNone))
    /\ a_pc' = "requested"
    /\ UNCHANGED <<token_vars, codec_vars, envelope_vars, a_response, a_result>>

\* records(service, zone): the GET goes out.
op_records ==
    /\ a_pc = "idle"
    /\ \E zone \in ZoneNames \cup {PyNone} :
         /\ a_call' = [name |-> "records", zone |-> zone]
         /\ a_requests' =
              Append(a_requests,
                     Request("GET",
                             <<"services", _default_service, "zones",
                               or_default(zone, _default_zone), "records">>,
                             PyNone))
    /\ a_pc' = "requested"
    /\ UNCHANGED <<token_vars, codec_vars, envelope_vars, a_response, a_result>>

\* delete_record(record_id): the DELETE goes out.
op_delete_record ==
    /\ a_pc = "idle"
    /\ \E record_id \in {PyInt(1)} :
         /\ a_call' = [name |-> "delete_record", record_id |-> record_id]
         /\ a_requests' =
              Append(a_requests,
                     Request("DELETE",
                             <<"services", _default_service, "zones",
                               _default_zone, "records", record_id>>,
                             PyNone))
    /\ a_pc' = "requested"
    /\ UNCHANGED <<token_vars, codec_vars, envelope_vars, a_response, a_result>>

\* commit(): the POST goes out.
op_commit ==
    /\ a_pc = "idle"
    /\ a_call' = [name |-> "commit"]
    /\ a_requests' =
         Append(a_requests,
                Request("POST",
                        <<"services", _default_service, "zones",
                          _default_zone, "commit">>,
                        PyNone))
    /\ a_pc' = "requested"
    /\ UNCHANGED <<token_vars, codec_vars, envelope_vars, a_response, a_result>>

\* rollback(): the POST goes out.
op_rollback ==
    /\ a_pc = "idle"
    /\ a_call' = [name |-> "rollback"]
    /\ a_requests' =
         Append(a_requests,
                Request("POST",
                        <<"services", _default_service, "zones",
                          _default_zone, "rollback">>,
                        PyNone))
    /\ a_pc' = "requested"
    /\ UNCHANGED <<token_vars, codec_vars, envelope_vars, a_response, a_result>>

\* add_record(records): an exception before the await ends the call with
\* nothing sent; else the PUT goes out.
op_add_record ==
    /\ a_pc = "idle"
    /\ \E records_arg \in AddRecordArgs :
         LET _xml == add_record(records_arg) IN
         /\ a_call' = [name |-> "add_record", records |-> records_arg]
         /\ IF IsErr(_xml)
            THEN /\ a_result' = _xml
                 /\ a_pc' = "done"
                 /\ UNCHANGED a_requests
            ELSE /\ a_requests' =
                      Append(a_requests,
                             Request("PUT",
                                     <<"services", _default_service, "zones",
                                       _default_zone, "records">>,
                                     _xml))
                 /\ a_pc' = "requested"
                 /\ UNCHANGED a_result
    /\ UNCHANGED <<token_vars, codec_vars, envelope_vars, a_response>>

\* _request returns the server's response.
op_respond ==
    /\ a_pc = "requested"
    /\ a_response' \in Responses
    /\ a_pc' = "responded"
    /\ UNCHANGED <<token_vars, codec_vars, envelope_vars, a_call, a_requests,
                   a_result>>

\* The operation runs on the response and returns or raises.
op_return ==
    /\ a_pc = "responded"
    /\ a_result' =
         CASE a_call.name = "services" -> services(a_response)
           [] a_call.name = "zones" -> zones(a_response)
           [] a_call.name = "zonefile" -> zonefile(a_response)
           [] a_call.name = "records" ->
                records(a_call.zone, _default_zone,
                        _request_checked(a_response, FALSE).body)
           [] OTHER -> no_result(a_response)
    /\ a_pc' = "done"
    /\ UNCHANGED <<token_vars, codec_vars, envelope_vars, a_call, a_requests,
                   a_response>>

\* ----------------------------------------------------- the specifications
TokenIdle == TokenInit /\ _token = 0 /\ ~_token_updater_clb
EnvelopeUnused == EnvelopeIdle /\ _default_zone = PyNone

Init == TokenInit /\ CodecInit /\ EnvelopeUnused /\ ApiInit

Next ==
    \/ \E t \in Tasks : get_token(t)
    \/ \E t \in Tasks : get_token_ok(t)
    \/ \E t \in Tasks : get_token_fail(t)
    \/ \E t \in Tasks : _request(t)
    \/ \E t \in Tasks : refresh_ok(t)
    \/ \E t \in Tasks : refresh_fail(t)
    \/ \E t \in Tasks : _request_return(t)
    \/ \E t \in Tasks : _request_fail(t)
    \/ \E t \in Tasks : cancel(t)
    \/ \E t \in Tasks : finish(t)
    \/ expire

Spec == Init /\ [][Next]_vars

\* The record codec: construct, encode and decode records; decode what a
\* server sends.
InitCodec == TokenIdle /\ CodecInit /\ EnvelopeUnused /\ ApiInit

NextCodec ==
    \/ codec_new
    \/ codec_to_xml
    \/ codec_from_xml
    \/ codec_receive
    \/ codec_create
    \/ codec_from_xml_as

SpecCodec == InitCodec /\ [][NextCodec]_vars

\* The response envelope: _request_data and records on what the server sends.
InitEnvelope == TokenIdle /\ CodecInit /\ EnvelopeInit /\ ApiInit

NextEnvelope ==
    \/ call_request_data
    \/ call_records
    \/ respond
    \/ return_request_data
    \/ return_records

SpecEnvelope == InitEnvelope /\ [][NextEnvelope]_vars

\* The public operations: each one's request, the response, its outcome.
InitApi == TokenIdle /\ CodecInit /\ EnvelopeInit /\ ApiInit

NextApi ==
    \/ op_services
    \/ op_zones
    \/ op_zonefile
    \/ op_records
    \/ op_add_record
    \/ op_delete_record
    \/ op_commit
    \/ op_rollback
    \/ op_respond
    \/ op_return

SpecApi == InitApi /\ [][NextApi]_vars

\* ---------------------------------------------------------------- claims

\* C1: while the token is expired at most one refresh is in flight on a
\* client, and concurrent calls cause one refresh and one callback
\* invocation, not one per call.
C1_SingleRefresh ==
    /\ Cardinality({t \in Tasks : pc[t] = "refreshing"}) <= 1
    /\ refresh_clbs <= 1

\* C2: with a callback, the callback has been invoked once per token change
\* (initial fetch and every refresh) with the new payload, never for a
\* failed acquisition, and the stored token is the last payload it was given.
C2_CallbackPerChange ==
    _token_updater_clb =>
        /\ clb_log = session_log
        /\ clb_log # <<>> => _token = clb_log[Len(clb_log)]

\* A fetch and a refresh have both changed the token and an acquisition failed.
C2_Witness ==
    /\ _token_updater_clb
    /\ Len(clb_log) >= 2
    /\ refresh_clbs >= 1
    /\ \E t \in Tasks : pc[t] = "failed" /\ upstream[t] # "none"

\* C3: a call cancelled while its refresh is in flight invokes no callback
\* and leaves the stored token (the client's and the session's) as it was.
C3_CancelledRefresh ==
    [][\A t \in Tasks :
         (pc[t] = "refreshing" /\ pc'[t] = "cancelled") =>
            /\ clb_log' = clb_log
            /\ _token' = _token
            /\ session_token' = session_token]_vars

\* The only call so far started a refresh and was cancelled in it.
C3_Witness ==
    /\ calls = 1
    /\ refresh_trips = 1
    /\ \E t \in Tasks : pc[t] = "cancelled" /\ op[t] = "request"

\* C4: an invalid-grant failure of get_token's fetch reaches the caller as
\* DnsApiException, never as the upstream exception type.
C4_InvalidGrantClassified ==
    \A t \in Tasks :
        (op[t] = "get_token" /\ pc[t] = "failed"
            /\ upstream[t] = "InvalidGrantError")
        => raised[t] = "DnsApiException"

\* get_token failed on an invalid grant.
C4_Witness ==
    \E t \in Tasks :
        /\ op[t] = "get_token"
        /\ pc[t] = "failed"
        /\ upstream[t] = "InvalidGrantError"


\* C5: decoding what to_xml produced gives back the record, field by field,
\* identifier included, for every variant and every combination of fields.
C5_RoundTrip ==
    c_pc = "decoded" => c_out = c_rec

\* C7: create returns a record of the variant named by the element's type
\* text for the nine registered tags (and does return one when the element
\* has that variant's shape), and raises the unknown-record-type error for
\* every other type text.
C7_CreateDispatch ==
    (c_pc = "created" /\ c_in.type # Absent) =>
        IF c_in.type.py = "str" /\ c_in.type.v \in SubclassSet
        THEN /\ IsErr(c_out) \/ c_out.cls = c_in.type.v
             /\ c_in.type.v = c_in.cls => ~IsErr(c_out)
        ELSE c_out = Raise("TypeError", "Unknown record type")

\* An element tagged UNKNOWN was dispatched and the error raised.
C7_Witness ==
    /\ c_pc = "created"
    /\ c_in.type = PyStr("UNKNOWN")
    /\ IsErr(c_out)

\* C8: no record with identifier 0 comes into being: constructing one with
\* identifier 0 raises, and so does decoding an element whose id is 0.
C8_IdGuard ==
    /\ (c_pc \in {"built", "raised"} /\ "id_" \in DOMAIN c_in.kwargs
            /\ int(c_in.kwargs.id_) = PyInt(0))
       => IsErr(c_rec)
    /\ (c_pc = "created" /\ c_xml.attrib.id = PyStr("0")) => IsErr(c_out)

\* C6: records raises the library's classified error, DnsApiException, and
\* returns no records whenever the name attribute of the zone element in the
\* response differs from the zone asked for.
C6_ZoneMismatch ==
    (e_pc = "done" /\ e_call.name = "records") =>
        LET zone == IF e_call.zone = PyNone THEN _default_zone ELSE e_call.zone
            data == _request_data(e_body, FALSE, TRUE)
            _zone == IF IsErr(data) THEN PyNone ELSE find(data, <<"zone">>)
        IN  (/\ IsElement(_zone)
             /\ _zone.attrib.name # PyNone
             /\ _zone.attrib.name # zone)
            => (IsErr(e_result) /\ e_result.err = "DnsApiException")

\* C9: on a response whose status is success and that has no data element,
\* _request_data returns an empty list when called with data_as_list, and
\* when called with data_none_except (alone) raises DnsApiException with the
\* missing-data message and the raw body in it.
C9_NoData ==
    (e_pc = "done" /\ e_call.name = "_request_data") =>
        LET root == fromstring(e_body)
            status == IF IsErr(root) THEN PyNone ELSE find(root, <<"status">>)
        IN  (/\ IsElement(status)
             /\ status.text = PyStr("success")
             /\ ~IsElement(find(root, <<"data">>)))
            => /\ e_call.data_as_list => e_result = PyList(<<>>)
               /\ (e_call.data_none_except /\ ~e_call.data_as_list) =>
                    e_result = RaiseBody("DnsApiException",
                                         "Can't find <data> in response: ",
                                         e_body)

\* A successful response without data was required to have one, and the
\* missing-data error came back.
C9_Witness ==
    /\ e_pc = "done"
    /\ e_call.name = "_request_data"
    /\ e_call.data_none_except
    /\ e_result = RaiseBody("DnsApiException",
                            "Can't find <data> in response: ", e_body)

\* C10: the error text of a response is its error entries, in document
\* order, each rendered as "Code: <code>. <message>" (a missing code as
\* empty) and joined by single spaces; when the status is not success the
\* exception raised carries exactly this text.
C10_ErrorText ==
    (e_pc = "done" /\ e_call.name = "_request_data") =>
        LET root == fromstring(e_body)
            status == IF IsErr(root) THEN PyNone ELSE find(root, <<"status">>)
            items == findall(root, <<"errors", "error">>)
            part(x) == IF x = PyNone THEN <<>> ELSE x.v
            entry(item) == <<"C", "o", "d", "e", ":", " ">>
                           \o part(item.attrib.code)
                           \o <<".", " ">>
                           \o part(item.text)
            joined[n \in 0..Len(items)] ==
                IF n = 0 THEN <<>>
                ELSE IF n = 1 THEN entry(items[1])
                ELSE joined[n - 1] \o <<" ">> \o entry(items[n])
        IN  IsElement(status) =>
                /\ _parse_answer(e_body).error = joined[Len(items)]
                /\ status.text # PyStr("success") =>
                        e_result = RaiseText("DnsApiException",
                                             joined[Len(items)])

\* C12: when a call fails because the status of the response is not success,
\* the exception raised carries at least one error message: its text is
\* never empty.
C12_ErrorTextNonEmpty ==
    (e_pc = "done" /\ e_call.name = "_request_data") =>
        LET root == fromstring(e_body)
            status == IF IsErr(root) THEN PyNone ELSE find(root, <<"status">>)
        IN  (IsElement(status) /\ status.text # PyStr("success")) =>
                /\ IsErr(e_result)
                /\ e_result.err = "DnsApiException"
                /\ e_result.text # <<>>

\* C18: for each of the nine variants V, V.from_xml raises on every element
\* whose type tag is not V's tag, an element without a type tag included,
\* and a record it returns is a V.
C18_TypeVerified ==
    c_pc = "verified" =>
        /\ c_in.type # PyStr(c_in.variant) => IsErr(c_out)
        /\ ~IsErr(c_out) =>
                c_out.cls = c_in.variant /\ type_name(c_out.cls) = c_in.type

\* An element of the A shape tagged MX was decoded as an A record and the
\* mismatch raised.
C18_Witness ==
    /\ c_pc = "verified"
    /\ c_in.variant = "A"
    /\ c_in.cls = "A"
    /\ c_in.type = PyStr("MX")
    /\ c_out = Raise("ValueError", "Record is not a record of the class")

\* C16: a call sends at most one API request and starts at most one token
\* round trip (get_token: the fetch and no API request); nothing is sent a
\* second time, and a call that failed has sent no request after the failure.
C16_OneRoundTrip ==
    \A t \in Tasks :
        /\ api_trips[t] <= 1
        /\ token_trips[t] <= 1
        /\ op[t] = "get_token" => api_trips[t] = 0
        /\ (pc[t] = "failed" /\ raised[t] # "ClientError") => api_trips[t] = 0

\* A call refreshed the token, sent its one request and failed in the
\* transport.
C16_Witness ==
    \E t \in Tasks :
        /\ pc[t] = "failed"
        /\ raised[t] = "ClientError"
        /\ token_trips[t] = 1
        /\ api_trips[t] = 1

\* C17: every outbound call - API request, token fetch of get_token,
\* automatic refresh - is sent with the client's timeout.
C17_TimeoutEverywhere ==
    \A call \in outbound : call.timeout = _timeout

\* The operations that read the response envelope through _request_data.
EnvelopeOperations == {"services", "zones", "records", "add_record",
                       "delete_record", "commit", "rollback"}

\* The response an operation got is well-formed XML without a status element.
NoStatusElement ==
    /\ a_response # PyNone
    /\ a_response.body # Unparseable
    /\ ~IsElement(find(a_response.body.xml, <<"status">>))

\* C11: an envelope-parsing operation whose response body has no status
\* element ends with the protocol error that carries the body, whatever data
\* and errors elements the body has, and returns no result.
C11_NoStatusIsError ==
    (a_pc = "done" /\ a_call.name \in EnvelopeOperations /\ NoStatusElement)
        => a_result = RaiseBody("DnsApiException",
                                "Can't find <status> in response: ",
                                a_response.body)

\* C11 witness: commit has ended on a body that has data and errors elements
\* and no status element.
C11_Witness ==
    /\ a_pc = "done"
    /\ a_call.name = "commit"
    /\ NoStatusElement
    /\ IsElement(find(a_response.body.xml, <<"data">>))
    /\ findall(a_response.body.xml, <<"errors", "error">>) # <<>>
    /\ a_result = RaiseBody("DnsApiException",
                            "Can't find <status> in response: ",
                            a_response.body)

\* Every element is a record of one of the four writable variants.
AllWritable(s) ==
    \A i \in 1..Len(s) :
        "cls" \in DOMAIN s[i] /\ s[i].cls \in {"A", "AAAA", "CNAME", "TXT"}

\* C13: add_record on an input with an element that is not an A, AAAA, CNAME
\* or TXT record is rejected with the TypeError and sends no request, also
\* when elements before it are writable.
C13_OnlyWritable ==
    (a_pc # "idle" /\ a_call.name = "add_record"
     /\ ~AllWritable(_records(a_call.records)))
        => /\ a_pc = "done"
           /\ a_result = Raise("TypeError", "is not a valid DNS record!")
           /\ a_requests = <<>>

\* C13 witness: a list of a writable A record followed by an MX record was
\* rejected and nothing was sent.
C13_Witness ==
    /\ a_pc = "done"
    /\ a_call = [name |-> "add_record",
                 records |-> PyList(<<a_record("A"), a_record("MX")>>)]
    /\ a_result = Raise("TypeError", "is not a valid DNS record!")
    /\ a_requests = <<>>

\* The encoded records of s, in order.
RECURSIVE encoded(_)
encoded(s) == IF s = <<>> THEN <<>> ELSE <<to_xml(Head(s))>> \o encoded(Tail(s))

\* C14: add_record on one writable record or on a sequence of n writable
\* records sends exactly one PUT whose request/rr-list body holds the n
\* encoded records in input order, and ends without error when the response
\* envelope has status success.
C14_OnePut ==
    (a_pc = "done" /\ a_call.name = "add_record"
     /\ _records(a_call.records) # <<>>
     /\ AllWritable(_records(a_call.records)))
        => /\ Len(a_requests) = 1
           /\ a_requests[1].method = "PUT"
           /\ a_requests[1].data =
                Node("request",
                     <<Node("rr-list", encoded(_records(a_call.records)))>>)
           /\ (find(a_response.body.xml, <<"status">>).text = PyStr("success")
                  => a_result = PyNone)

\* C15: zonefile returns the text of the response unchanged whenever the HTTP
\* response is ok, parseable or not, with or without a status element, and
\* raises the HTTP error that carries the body exactly when it is not ok.
C15_ZonefileRaw ==
    (a_pc = "done" /\ a_call.name = "zonefile")
        => /\ a_response.ok => a_result = a_response.body
           /\ ~a_response.ok =>
                a_result = RaiseBody("DnsApiException", "HTTP Error. Body: ",
                                     a_response.body)
           /\ IsErr(a_result) <=> ~a_response.ok

\* C15 witness: zonefile returned, unchanged, an ok response's text that is
\* no XML; the same text on a response that is not ok is possible too.
C15_Witness ==
    /\ a_pc = "done"
    /\ a_call.name = "zonefile"
    /\ a_response = Response(TRUE, Unparseable)
    /\ a_result = Unparseable

\* C19: _is_sequence is False for every string and True for every list and
\* every tuple that add_record is given.
C19_IsSequence ==
    (a_pc # "idle" /\ a_call.name = "add_record"
     /\ "py" \in DOMAIN a_call.records)
        => /\ a_call.records.py = "str" => ~_is_sequence(a_call.records)
           /\ a_call.records.py \in {"list", "tuple"}
                => _is_sequence(a_call.records)

====
